---- MODULE Spec2Model ----
(***************************************************************************)
(* Model of homework.py: the fitness-tracker module.  A workout record is  *)
(* built by read_package from a code and a list of sensor values, its      *)
(* distance, mean speed and calories are computed by the class of the      *)
(* record, and the entry-point loop prints one message per package.        *)
(*                                                                         *)
(* Numbers.  The program computes with Python ints and floats.  A number   *)
(* is modelled as an exact rational <<n, d>> in lowest terms with d > 0;   *)
(* the operators RMul, RDiv, RAdd follow the order of operations of the    *)
(* source expressions.  The rounding error of a float is far below the     *)
(* third decimal, so it shows only where a value is formatted (see Fmt3).  *)
(***************************************************************************)
EXTENDS Integers, Sequences, FiniteSets, TLC

VARIABLES packages, idx, pc, training, heap, infos, stdout, err

vars == <<packages, idx, pc, training, heap, infos, stdout, err>>

----------------------------------------------------------------------------
(* Bounds *)

MaxPackages == 2

----------------------------------------------------------------------------
(* Rational arithmetic standing for Python's float arithmetic *)

Abs(x) == IF x < 0 THEN -x ELSE x

RECURSIVE Gcd(_, _)
Gcd(a, b) == IF b = 0 THEN a ELSE Gcd(b, a % b)

Norm(n, d) ==
    LET g == Gcd(Abs(n), Abs(d))
        s == IF d < 0 THEN -1 ELSE 1
    IN  IF n = 0 THEN <<0, 1>> ELSE <<s * (n \div g), s * (d \div g)>>

Q(i) == <<i, 1>>

RMul(a, b) ==
    IF a[1] = 0 \/ b[1] = 0 THEN <<0, 1>>
    ELSE LET g1 == Gcd(Abs(a[1]), b[2])
             g2 == Gcd(Abs(b[1]), a[2])
         IN  <<(a[1] \div g1) * (b[1] \div g2), (a[2] \div g2) * (b[2] \div g1)>>

RInv(a) == IF a[1] > 0 THEN <<a[2], a[1]>> ELSE <<-a[2], -a[1]>>

RDiv(a, b) == RMul(a, RInv(b))

RAdd(a, b) ==
    LET g == Gcd(a[2], b[2])
    IN  Norm(a[1] * (b[2] \div g) + b[1] * (a[2] \div g), (a[2] \div g) * b[2])

RLt(a, b) ==
    LET g == Gcd(a[2], b[2])
    IN  a[1] * (b[2] \div g) < b[1] * (a[2] \div g)

----------------------------------------------------------------------------
(* Class constants *)

MIN_IN_HOUR == Q(60)
M_IN_KM == Q(1000)

\* variant: Swimming does not override LEN_STEP
LEN_STEP_Base(cls) == <<13, 20>>

LEN_STEP(cls) == IF cls = "Swimming" THEN <<69, 50>> ELSE <<13, 20>>

CALORIES_MEAN_SPEED_MULTIPLIER == Q(18)
CALORIES_MEAN_SPEED_SHIFT == <<179, 100>>

WLK_COEFF_1 == <<7, 200>>
WLK_COEFF_2 == <<29, 1000>>
SM_M == Q(100)
M_SEC == <<139, 500>>

SWM_COEFF_1 == <<11, 10>>
SWM_COEFF_2 == Q(2)

----------------------------------------------------------------------------
(* Training and its subclasses *)

get_distance(self) ==
    RDiv(RMul(self.action, LEN_STEP(self.cls)), M_IN_KM)

\* variant: Swimming does not override get_mean_speed
get_mean_speed_Base(self) == RDiv(get_distance(self), self.duration)

get_mean_speed(self) ==
    IF self.cls = "Swimming"
    THEN RDiv(RDiv(RMul(self.length_pool, self.count_pool), M_IN_KM), self.duration)
    ELSE RDiv(get_distance(self), self.duration)

\* variant: the duration is left in hours
RunningCalories_Hours(self) ==
    RMul(RDiv(RMul(RAdd(RMul(CALORIES_MEAN_SPEED_MULTIPLIER, get_mean_speed(self)),
                        CALORIES_MEAN_SPEED_SHIFT),
                   self.weight),
              M_IN_KM),
         self.duration)

\* variant: the shift is subtracted
RunningCalories_ShiftSubtracted(self) ==
    RMul(RDiv(RMul(RAdd(RMul(CALORIES_MEAN_SPEED_MULTIPLIER, get_mean_speed(self)),
                        <<-179, 100>>),
                   self.weight),
              M_IN_KM),
         RMul(self.duration, MIN_IN_HOUR))

RunningCalories(self) ==
    RMul(RDiv(RMul(RAdd(RMul(CALORIES_MEAN_SPEED_MULTIPLIER, get_mean_speed(self)),
                        CALORIES_MEAN_SPEED_SHIFT),
                   self.weight),
              M_IN_KM),
         RMul(self.duration, MIN_IN_HOUR))

SportsWalkingCalories(self) ==
    LET ms == RMul(get_mean_speed(self), M_SEC)
    IN  RMul(RAdd(RMul(WLK_COEFF_1, self.weight),
                  RMul(RMul(RDiv(RMul(ms, ms), RDiv(self.height, SM_M)),
                            WLK_COEFF_2),
                       self.weight)),
             RMul(self.duration, MIN_IN_HOUR))

SwimmingCalories(self) ==
    RMul(RMul(RMul(RAdd(get_mean_speed(self), SWM_COEFF_1), SWM_COEFF_2),
              self.weight),
         self.duration)

get_spent_calories(self) ==
    CASE self.cls = "Running" -> RunningCalories(self)
      [] self.cls = "SportsWalking" -> SportsWalkingCalories(self)
      [] self.cls = "Swimming" -> SwimmingCalories(self)

\* The exception show_training_info raises on self, or "none".  The
\* arguments of InfoMessage are evaluated in order: get_distance, then
\* get_mean_speed (division by duration), then get_spent_calories.
ShowRaises(self) ==
    IF self.duration[1] = 0 THEN "ZeroDivisionError"
    ELSE IF self.cls = "Training" THEN "NotImplementedError"
    ELSE IF self.cls = "SportsWalking" /\ self.height[1] = 0 THEN "ZeroDivisionError"
    ELSE "none"

show_training_info(self) ==
    [training_type |-> self.cls,
     duration |-> self.duration,
     distance |-> get_distance(self),
     speed |-> get_mean_speed(self),
     calories |-> get_spent_calories(self)]

----------------------------------------------------------------------------
(* InfoMessage.get_message: each number is rendered by the format .3f.    *)
(* The rendered text is modelled as <<sign, count of thousandths>>.  The   *)
(* float that is formatted differs from the exact value by a rounding      *)
(* error, so when the exact value lies halfway between two renderings the  *)
(* float may lie on either side: Fmt3 is then the set of both.             *)

Fmt3Pos(n, d) ==
    LET q  == n \div d
        r0 == n % d
        d1 == (r0 * 10) \div d
        r1 == (r0 * 10) % d
        d2 == (r1 * 10) \div d
        r2 == (r1 * 10) % d
        d3 == (r2 * 10) \div d
        r3 == (r2 * 10) % d
        t  == q * 1000 + d1 * 100 + d2 * 10 + d3
    IN  IF 2 * r3 > d THEN {t + 1}
        ELSE IF 2 * r3 < d THEN {t}
        ELSE {t, t + 1}

Fmt3(x) ==
    IF x[1] < 0 THEN {<<"-", t>> : t \in Fmt3Pos(-x[1], x[2])}
    ELSE {<<"", t>> : t \in Fmt3Pos(x[1], x[2])}

get_message(info) ==
    {<<info.training_type, du, di, sp, ca>> :
        du \in Fmt3(info.duration), di \in Fmt3(info.distance),
        sp \in Fmt3(info.speed), ca \in Fmt3(info.calories)}

----------------------------------------------------------------------------
(* read_package *)

\* variant: RUN is mapped to the base class
storage_data_Base == ("SWM" :> "Swimming") @@ ("RUN" :> "Training") @@ ("WLK" :> "SportsWalking")

storage_data == ("SWM" :> "Swimming") @@ ("RUN" :> "Running") @@ ("WLK" :> "SportsWalking")

\* variant: surplus values are dropped instead of rejected
Construct_Lenient(cls, data) ==
    CASE cls = "Swimming" ->
           IF Len(data) < 5 THEN [ok |-> FALSE, error |-> "TypeError"]
           ELSE [ok |-> TRUE,
                 obj |-> [cls |-> cls, action |-> data[1], duration |-> data[2],
                          weight |-> data[3], length_pool |-> data[4],
                          count_pool |-> data[5]]]
      [] cls = "SportsWalking" ->
           IF Len(data) < 4 THEN [ok |-> FALSE, error |-> "TypeError"]
           ELSE [ok |-> TRUE,
                 obj |-> [cls |-> cls, action |-> data[1], duration |-> data[2],
                          weight |-> data[3], height |-> data[4]]]
      [] OTHER ->
           IF Len(data) < 3 THEN [ok |-> FALSE, error |-> "TypeError"]
           ELSE [ok |-> TRUE,
                 obj |-> [cls |-> cls, action |-> data[1], duration |-> data[2],
                          weight |-> data[3]]]

\* cls(*data): the dataclass-generated __init__ takes the fields in
\* declaration order and raises TypeError on any other number of arguments.
Construct(cls, data) ==
    CASE cls = "Swimming" ->
           IF Len(data) # 5 THEN [ok |-> FALSE, error |-> "TypeError"]
           ELSE [ok |-> TRUE,
                 obj |-> [cls |-> cls, action |-> data[1], duration |-> data[2],
                          weight |-> data[3], length_pool |-> data[4],
                          count_pool |-> data[5]]]
      [] cls = "SportsWalking" ->
           IF Len(data) # 4 THEN [ok |-> FALSE, error |-> "TypeError"]
           ELSE [ok |-> TRUE,
                 obj |-> [cls |-> cls, action |-> data[1], duration |-> data[2],
                          weight |-> data[3], height |-> data[4]]]
      [] OTHER ->
           IF Len(data) # 3 THEN [ok |-> FALSE, error |-> "TypeError"]
           ELSE [ok |-> TRUE,
                 obj |-> [cls |-> cls, action |-> data[1], duration |-> data[2],
                          weight |-> data[3]]]

\* variant: no membership test, the dictionary lookup raises KeyError
read_package_KeyError(workout_type, data) ==
    IF workout_type \notin DOMAIN storage_data
    THEN [ok |-> FALSE, error |-> "KeyError"]
    ELSE Construct(storage_data[workout_type], data)

read_package(workout_type, data) ==
    IF workout_type \notin DOMAIN storage_data
    THEN [ok |-> FALSE, error |-> "ValueError"]
    ELSE Construct(storage_data[workout_type], data)

----------------------------------------------------------------------------
(* Inputs of the entry point.  The script's own list is one of the lists   *)
(* drawn here, up to its SportsWalking pair: the values of that variant    *)
(* are chosen so that the exact calories fit the integers of the checker.  *)
(* The sets add a zero duration, a zero height, negative action counts,    *)
(* value lists of the wrong length and codes outside storage_data.         *)

RunData ==
    {<<Q(a), d, Q(w)>> : a \in {15000, 0, -100, -200}, d \in {Q(1), <<1, 2>>}, w \in {75}}
        \cup {<<Q(15000), Q(0), Q(75)>>}

WlkData ==
    {<<Q(a), Q(1), Q(80), Q(h)>> : a \in {10000, 20000}, h \in {100, 200}}
        \cup {<<Q(10000), Q(1), Q(80), Q(0)>>}

SwmData ==
    {<<Q(a), Q(d), Q(w), Q(25), Q(c)>> : a \in {720, 0}, d \in {1, 2}, w \in {80, 75}, c \in {40}}

Packages ==
    ({"RUN"} \X RunData) \cup ({"WLK"} \X WlkData) \cup ({"SWM"} \X SwmData)
        \cup {<<"RUN", <<Q(15000), Q(1)>>>>,
              <<"RUN", <<Q(9000), Q(1), Q(75), Q(180)>>>>,
              <<"WLK", <<Q(9000), Q(1), Q(75)>>>>,
              <<"SWM", <<Q(720), Q(1), Q(80), Q(25)>>>>,
              <<"XYZ", <<Q(1), Q(1), Q(1)>>>>,
              <<"XYZ", <<>>>>,
              <<"run", <<Q(15000), Q(1), Q(75)>>>>}

PackageLists ==
    UNION {[1..n -> Packages] : n \in 0..MaxPackages}

----------------------------------------------------------------------------
(* The entry point: for workout_type, data in packages: ... *)

Init ==
    /\ packages \in PackageLists
    /\ idx = 1
    /\ pc = "loop"
    /\ training = 0
    /\ heap = <<>>
    /\ infos = <<>>
    /\ stdout = <<>>
    /\ err = "none"

\* variant: a failed read_package is skipped and the loop goes on
ReadPackage_Skip ==
    /\ pc = "loop"
    /\ idx <= Len(packages)
    /\ LET res == read_package(packages[idx][1], packages[idx][2])
       IN  IF res.ok
           THEN /\ heap' = Append(heap, res.obj)
                /\ training' = Len(heap) + 1
                /\ pc' = "main"
                /\ idx' = idx
           ELSE /\ pc' = "loop"
                /\ idx' = idx + 1
                /\ UNCHANGED <<heap, training>>
    /\ UNCHANGED <<packages, infos, stdout, err>>

\* training = read_package(workout_type, data)
ReadPackage ==
    /\ pc = "loop"
    /\ idx <= Len(packages)
    /\ LET res == read_package(packages[idx][1], packages[idx][2])
       IN  IF res.ok
           THEN /\ heap' = Append(heap, res.obj)
                /\ training' = Len(heap) + 1
                /\ pc' = "main"
                /\ err' = err
           ELSE /\ pc' = "crashed"
                /\ err' = res.error
                /\ UNCHANGED <<heap, training>>
    /\ UNCHANGED <<packages, idx, infos, stdout>>

\* variant: the new line is put before the lines already printed
Main_Prepend ==
    /\ pc = "main"
    /\ LET self == heap[training]
           exc == ShowRaises(self)
       IN  IF exc = "none"
           THEN /\ infos' = Append(infos, show_training_info(self))
                /\ \E line \in get_message(show_training_info(self)) :
                       stdout' = <<line>> \o stdout
                /\ idx' = idx + 1
                /\ pc' = "loop"
                /\ err' = err
           ELSE /\ pc' = "crashed"
                /\ err' = exc
                /\ UNCHANGED <<infos, stdout, idx>>
    /\ UNCHANGED <<packages, training, heap>>

\* variant: the computation stores the duration in minutes in the record
Main_Mutating ==
    /\ pc = "main"
    /\ LET self == heap[training]
           exc == ShowRaises(self)
       IN  IF exc = "none"
           THEN /\ infos' = Append(infos, show_training_info(self))
                /\ \E line \in get_message(show_training_info(self)) :
                       stdout' = Append(stdout, line)
                /\ heap' = [heap EXCEPT ![training].duration = RMul(@, MIN_IN_HOUR)]
                /\ idx' = idx + 1
                /\ pc' = "loop"
                /\ err' = err
           ELSE /\ pc' = "crashed"
                /\ err' = exc
                /\ UNCHANGED <<infos, stdout, idx, heap>>
    /\ UNCHANGED <<packages, training>>

\* main(training): info = training.show_training_info(); print(info.get_message())
Main ==
    /\ pc = "main"
    /\ LET self == heap[training]
           exc == ShowRaises(self)
       IN  IF exc = "none"
           THEN /\ infos' = Append(infos, show_training_info(self))
                /\ \E line \in get_message(show_training_info(self)) :
                       stdout' = Append(stdout, line)
                /\ idx' = idx + 1
                /\ pc' = "loop"
                /\ err' = err
           ELSE /\ pc' = "crashed"
                /\ err' = exc
                /\ UNCHANGED <<infos, stdout, idx>>
    /\ UNCHANGED <<packages, training, heap>>

\* the for loop is exhausted and the script ends
Finish ==
    /\ pc = "loop"
    /\ idx > Len(packages)
    /\ pc' = "done"
    /\ UNCHANGED <<packages, idx, training, heap, infos, stdout, err>>

Next == ReadPackage \/ Main \/ Finish

Spec == Init /\ [][Next]_vars

TypeOK ==
    /\ pc \in {"loop", "main", "done", "crashed"}
    /\ idx \in 1..(Len(packages) + 1)
    /\ training \in 0..Len(heap)
    /\ Len(infos) = Len(stdout)

----------------------------------------------------------------------------
(* Vocabulary of the properties *)

RecognizedCodes == {"SWM", "RUN", "WLK"}

\* number of values the variant of a code takes
ArityOf(code) ==
    CASE code = "RUN" -> 3
      [] code = "WLK" -> 4
      [] code = "SWM" -> 5

VariantName(code) ==
    CASE code = "RUN" -> "Running"
      [] code = "WLK" -> "SportsWalking"
      [] code = "SWM" -> "Swimming"

\* package k has been passed to read_package
Dispatched(k) ==
    /\ k \in 1..Len(packages)
    /\ \/ k < idx
       \/ k = idx /\ pc \in {"main", "crashed"}

\* read_package raised on package k
ReadFailed(k) == k = idx /\ pc = "crashed" /\ Len(heap) = k - 1

\* a pair as section 6 of the specification describes the input
ValidPair(p) ==
    /\ p[1] \in RecognizedCodes
    /\ Len(p[2]) = ArityOf(p[1])
    /\ \A i \in 1..Len(p[2]) : i # 1 => p[2][i][1] > 0

AllValid == \A k \in 1..Len(packages) : ValidPair(packages[k])

----------------------------------------------------------------------------
(* C1: read_package returns a record for each of the codes SWM, RUN, WLK   *)
(* when the value list has the arity of the variant; for any other code it *)
(* raises the same kind of error (the ValueError of line 112), whatever    *)
(* the value list, and constructs no record.                               *)

C1_DispatchTotal ==
    \A k \in 1..Len(packages) :
        Dispatched(k) =>
            LET code == packages[k][1]
                data == packages[k][2]
            IN  /\ (code \in RecognizedCodes /\ Len(data) = ArityOf(code))
                      => (Len(heap) >= k /\ ~ReadFailed(k))
                /\ code \notin RecognizedCodes
                      => (ReadFailed(k) /\ err = "ValueError")

C1_Witness ==
    /\ Len(packages) = 2
    /\ Len(heap) = 1
    /\ packages[2][1] \notin RecognizedCodes
    /\ Len(packages[2][2]) = 3
    /\ ReadFailed(2)

(* C2 as stated: an arity mismatch under a recognized code raises a typed  *)
(* ArityMismatch error, neither the unsupported-code error nor a generic   *)
(* construction error, and no record is constructed.                       *)

C2_Original ==
    \A k \in 1..Len(packages) :
        (/\ Dispatched(k)
         /\ packages[k][1] \in RecognizedCodes
         /\ Len(packages[k][2]) # ArityOf(packages[k][1]))
            => (ReadFailed(k) /\ err \notin {"ValueError", "TypeError"})

(* C2 amended: an arity mismatch under a recognized code raises the        *)
(* generic TypeError of the constructor call, which is not the kind raised *)
(* for an unsupported code, and no record is constructed.                  *)

C2_ArityTypeError ==
    \A k \in 1..Len(packages) :
        (/\ Dispatched(k)
         /\ packages[k][1] \in RecognizedCodes
         /\ Len(packages[k][2]) # ArityOf(packages[k][1]))
            => (ReadFailed(k) /\ err = "TypeError" /\ err # "ValueError")

C2_Witness ==
    /\ Len(packages) >= 1
    /\ packages[idx][1] = "SWM"
    /\ Len(packages[idx][2]) = 4
    /\ ReadFailed(idx)
    /\ err = "TypeError"

(* C8: the name in the summary is the name of the variant the code maps    *)
(* to (SWM Swimming, RUN Running, WLK SportsWalking); read_package never   *)
(* constructs the base Training, so show_training_info never raises        *)
(* NotImplementedError.                                                    *)

C8_VariantName ==
    /\ err # "NotImplementedError"
    /\ \A k \in 1..Len(heap) :
           /\ heap[k].cls = VariantName(packages[k][1])
           /\ heap[k].cls # "Training"
    /\ \A k \in 1..Len(infos) :
           /\ infos[k].training_type = VariantName(packages[k][1])
           /\ stdout[k][1] = VariantName(packages[k][1])

C8_Witness ==
    /\ Len(stdout) = 2
    /\ packages[1][1] = "WLK"
    /\ stdout[1][1] = "SportsWalking"
    /\ packages[2][1] = "RUN"
    /\ stdout[2][1] = "Running"

(* C3: when every pair of the input is valid, the loop prints exactly one  *)
(* line per pair in input order and nothing else: line k is the message of *)
(* the record of pair k, and pair k+1 is dispatched only after line k is   *)
(* printed.                                                                *)

C3_OneLinePerPair ==
    AllValid =>
        /\ pc # "crashed"
        /\ Len(stdout) = idx - 1
        /\ Len(heap) = Len(stdout) + (IF pc = "main" THEN 1 ELSE 0)
        /\ pc = "done" => Len(stdout) = Len(packages)
        /\ \A k \in 1..Len(heap) :
               heap[k] = read_package(packages[k][1], packages[k][2]).obj
        /\ \A k \in 1..Len(stdout) :
               /\ infos[k] = show_training_info(heap[k])
               /\ stdout[k] \in get_message(infos[k])

C3_Witness ==
    /\ AllValid
    /\ pc = "done"
    /\ Len(packages) = 2
    /\ packages[1][1] = "SWM"
    /\ packages[2][1] = "RUN"
    /\ Len(stdout) = 2
    /\ stdout[1][1] = "Swimming"
    /\ stdout[2][1] = "Running"

\* package k is the running scenario ("RUN", [15000, 1, 75])
IsRunScenario(k) == packages[k] = <<"RUN", <<Q(15000), Q(1), Q(75)>>>>

\* (18 * mean_speed + 1.79) * weight / 1000 * (duration * 60)
RunFormula(speed, weight, duration) ==
    RMul(RDiv(RMul(RAdd(RMul(Q(18), speed), <<179, 100>>), weight), Q(1000)),
         RMul(duration, Q(60)))

(* C4 as stated: the summary of ("RUN", [15000, 1, 75]) holds distance     *)
(* 9.75, mean speed 9.75 and calories 792.84 to three decimals, the        *)
(* calories being (18 * speed + 1.79) * weight / 1000 * (duration * 60).   *)

C4_Original ==
    \A k \in 1..Len(stdout) :
        IsRunScenario(k) =>
            /\ infos[k].distance = <<39, 4>>
            /\ infos[k].speed = <<39, 4>>
            /\ infos[k].calories = RunFormula(infos[k].speed, Q(75), Q(1))
            /\ stdout[k][5] = <<"", 792840>>

(* C4 amended: the summary of ("RUN", [15000, 1, 75]) holds distance 9.75, *)
(* mean speed 9.75 and calories 797.805, the value of                      *)
(* (18 * speed + 1.79) * weight / 1000 * (duration * 60).                  *)

C4_RunScenario ==
    \A k \in 1..Len(stdout) :
        IsRunScenario(k) =>
            /\ infos[k].distance = <<39, 4>>
            /\ infos[k].speed = <<39, 4>>
            /\ infos[k].calories = RunFormula(infos[k].speed, Q(75), Q(1))
            /\ infos[k].calories = <<159561, 200>>
            /\ stdout[k][3] = <<"", 9750>>
            /\ stdout[k][4] = <<"", 9750>>
            /\ stdout[k][5] = <<"", 797805>>

C4_Witness ==
    /\ Len(stdout) >= 1
    /\ IsRunScenario(1)
    /\ stdout[1] = <<"Running", <<"", 1000>>, <<"", 9750>>, <<"", 9750>>, <<"", 797805>>>>

(* C5: the mean speed of a Swimming record is                              *)
(* length_pool * count_pool / 1000 / duration and does not depend on       *)
(* action (nor on weight): two Swimming records that agree on pool length, *)
(* lap count and duration have the same mean speed, and with equal weight  *)
(* the same calories.                                                      *)

OtherActions == {0, 720, 1000}
OtherWeights == {75, 80}

C5_SwimSpeedIgnoresAction ==
    \A k \in 1..Len(infos) :
        heap[k].cls = "Swimming" =>
            /\ infos[k].speed =
                   RDiv(RDiv(RMul(heap[k].length_pool, heap[k].count_pool), Q(1000)),
                        heap[k].duration)
            /\ \A j \in 1..Len(infos) :
                   (/\ heap[j].cls = "Swimming"
                    /\ heap[j].length_pool = heap[k].length_pool
                    /\ heap[j].count_pool = heap[k].count_pool
                    /\ heap[j].duration = heap[k].duration)
                       => /\ infos[j].speed = infos[k].speed
                          /\ heap[j].weight = heap[k].weight
                                => infos[j].calories = infos[k].calories
            /\ \A a \in OtherActions, w \in OtherWeights :
                   LET other == [heap[k] EXCEPT !.action = Q(a), !.weight = Q(w)]
                   IN  /\ get_mean_speed(other) = infos[k].speed
                       /\ heap[k].weight = Q(w)
                             => get_spent_calories(other) = infos[k].calories

C5_Witness ==
    /\ Len(infos) = 2
    /\ heap[1].cls = "Swimming"
    /\ heap[2].cls = "Swimming"
    /\ heap[1].action # heap[2].action
    /\ heap[1].weight # heap[2].weight
    /\ heap[1].duration = heap[2].duration
    /\ heap[1].length_pool = heap[2].length_pool
    /\ heap[1].count_pool = heap[2].count_pool
    /\ infos[1].speed = infos[2].speed

(* C6: the distance of the summary is action * STEP / 1000, STEP being     *)
(* 0.65 for Running and SportsWalking and 1.38 for Swimming; a Swimming    *)
(* record of 720 actions reports 0.9936 km, and its speed is the pool      *)
(* formula, not the reported distance over the duration.                   *)

C6_DistanceFromSteps ==
    \A k \in 1..Len(infos) :
        /\ heap[k].cls \in {"Running", "SportsWalking"}
              => infos[k].distance = RDiv(RMul(heap[k].action, <<65, 100>>), Q(1000))
        /\ heap[k].cls = "Swimming"
              => /\ infos[k].distance = RDiv(RMul(heap[k].action, <<138, 100>>), Q(1000))
                 /\ heap[k].action = Q(720) => infos[k].distance = <<621, 625>>
                 /\ infos[k].speed =
                        RDiv(RDiv(RMul(heap[k].length_pool, heap[k].count_pool), Q(1000)),
                             heap[k].duration)

C6_Witness ==
    /\ Len(infos) >= 1
    /\ packages[1] = <<"SWM", <<Q(720), Q(1), Q(80), Q(25), Q(40)>>>>
    /\ infos[1].distance = <<621, 625>>
    /\ infos[1].speed = Q(1)
    /\ infos[1].speed # RDiv(infos[1].distance, infos[1].duration)
    /\ stdout[1][3] = <<"", 994>>

(* C7: for a Running record with duration > 0 and weight > 0 the calories  *)
(* are > 0 whenever the mean speed is greater than -1.79/18, in particular *)
(* whenever action >= 0.                                                   *)

C7_RunningCaloriesPositive ==
    \A k \in 1..Len(infos) :
        (/\ heap[k].cls = "Running"
         /\ heap[k].duration[1] > 0
         /\ heap[k].weight[1] > 0)
            => /\ RLt(<<-179, 1800>>, infos[k].speed) => RLt(Q(0), infos[k].calories)
               /\ heap[k].action[1] >= 0 => RLt(Q(0), infos[k].calories)

C7_Witness ==
    /\ Len(infos) = 2
    /\ heap[1].cls = "Running"
    /\ heap[1].action[1] < 0
    /\ RLt(<<-179, 1800>>, infos[1].speed)
    /\ RLt(Q(0), infos[1].calories)
    /\ heap[2].cls = "Running"
    /\ heap[2].action[1] < 0
    /\ ~RLt(<<-179, 1800>>, infos[2].speed)
    /\ ~RLt(Q(0), infos[2].calories)

(* C9: when the loop meets an unrecognized code at position k the error    *)
(* ends the run: lines 1..k-1 are printed, no line is printed for pair k,  *)
(* and no later pair is dispatched or printed.                             *)

C9_State ==
    \A k \in 1..Len(packages) :
        packages[k][1] \notin RecognizedCodes =>
            /\ idx <= k
            /\ Len(heap) <= k - 1
            /\ Len(stdout) <= k - 1
            /\ pc # "done"
            /\ Dispatched(k) =>
                   /\ pc = "crashed"
                   /\ err = "ValueError"
                   /\ Len(stdout) = k - 1
                   /\ Len(heap) = k - 1

C9_UncaughtEndsRun ==
    /\ []C9_State
    /\ [][pc = "crashed" => FALSE]_vars

C9_Witness ==
    /\ Len(packages) = 2
    /\ packages[1][1] \notin RecognizedCodes
    /\ packages[2][1] \in RecognizedCodes
    /\ pc = "crashed"
    /\ stdout = <<>>

(* C10: no operation changes a record after it is constructed: every step  *)
(* leaves the fields of the existing records as they are, and the duration *)
(* of a summary is the duration of its record.                             *)

C10_Frame ==
    /\ Len(heap') >= Len(heap)
    /\ \A k \in 1..Len(heap) : heap'[k] = heap[k]

C10_RecordsImmutable ==
    /\ [][C10_Frame]_vars
    /\ [](\A k \in 1..Len(infos) :
              /\ infos[k].duration = heap[k].duration
              /\ infos[k] = show_training_info(heap[k]))

C10_Witness ==
    /\ pc = "done"
    /\ Len(heap) = 2
    /\ Len(infos) = 2
    /\ heap[1] # heap[2]
    /\ infos[1].duration = heap[1].duration
    /\ infos[2].duration = heap[2].duration

====
